---- MODULE Spec2Model ----
(***************************************************************************)
(* A model of the JSON parser of src/src/main.rs.                          *)
(*                                                                         *)
(* The text buffer is a sequence of one-character strings and the cursor   *)
(* (`input: &mut &str`, a slice that shrinks as it is consumed) is the     *)
(* number of characters already consumed.  Every grammar rule is an        *)
(* operator rule(s, p) giving [ok, pos, val]: whether it succeeded, where   *)
(* it left the cursor, and the value it produced.  The winnow combinators  *)
(* the rules are built from (literal tags, opt, alt, delimited, separated, *)
(* separated_pair, seq!, digit1, multispace0, take_until) are modelled by  *)
(* what they do to the cursor: a failing rule leaves the cursor where it   *)
(* stopped, and only opt, alt and separated put it back.                   *)
(*                                                                         *)
(* An f64 is modelled as an exact decimal [m, e] = m * 10^e in normal form *)
(* (m has no trailing zero; zero is [0, 0]); binary rounding is not        *)
(* modelled, and -0.0 is 0.0, as it is under f64's ==.                      *)
(***************************************************************************)
EXTENDS Integers, Sequences, FiniteSets, TLC

VARIABLES input, cursor, rule, result

vars == <<input, cursor, rule, result>>

RECURSIVE take_while(_, _, _)
RECURSIVE find_char(_, _, _)
RECURSIVE find_unescaped(_, _, _)
RECURSIVE DigitsValue(_)
RECURSIVE Pow10(_)
RECURSIVE Norm(_, _)
RECURSIVE parse_value(_, _)
RECURSIVE alt_from(_, _, _, _)
RECURSIVE parse_array(_, _)
RECURSIVE parse_object(_, _)
RECURSIVE separated_values(_, _, _)
RECURSIVE separated_kv(_, _, _)
RECURSIVE Flatten(_)
RECURSIVE Join(_, _)

(***************************************************************************)
(* Results of a rule.                                                      *)
(***************************************************************************)
NoVal == [tag |-> "None"]

\* the unit value () of parse_null
Unit == [tag |-> "Unit"]

Ok(v, p) == [ok |-> TRUE, pos |-> p, val |-> v]

Err(p) == [ok |-> FALSE, pos |-> p, val |-> NoVal]

(***************************************************************************)
(* enum JsonValue                                                          *)
(***************************************************************************)
JNull == [tag |-> "Null"]

JString(body) == [tag |-> "String", s |-> body]

JNumber(x) == [tag |-> "Number", m |-> x.m, e |-> x.e]

JBoolean(b) == [tag |-> "Boolean", b |-> b]

JArray(items) == [tag |-> "Array", items |-> items]

JObject(map) == [tag |-> "Object", map |-> map]

(***************************************************************************)
(* f64 arithmetic on exact decimals.                                       *)
(***************************************************************************)
Pow10(k) == IF k <= 0 THEN 1 ELSE 10 * Pow10(k - 1)

Norm(m, e) ==
    IF m = 0 THEN [m |-> 0, e |-> 0]
    ELSE IF m % 10 = 0 THEN Norm(m \div 10, e + 1)
    ELSE [m |-> m, e |-> e]

Min(a, b) == IF a <= b THEN a ELSE b

F64Add(a, b) ==
    LET e == Min(a.e, b.e)
    IN  Norm(a.m * Pow10(a.e - e) + b.m * Pow10(b.e - e), e)

F64Neg(a) == [m |-> 0 - a.m, e |-> a.e]

F64Mul(a, b) == Norm(a.m * b.m, a.e + b.e)

F64Div(a, b) ==
    \* only ever a division by a power of ten: b = [1, k]
    Norm(a.m, a.e - b.e)

F64Powi10(k) == [m |-> 1, e |-> k]

I32Max == 2147483647

\* `z as i32` of a whole number z: its value, saturated to the i32 range
AsI32(x) ==
    LET mag == IF x.m < 0 THEN 0 - x.m ELSE x.m
    IN  IF x.e > 9 \/ mag > I32Max \div Pow10(x.e)
        THEN (IF x.m > 0 THEN I32Max ELSE 0 - I32Max - 1)
        ELSE x.m * Pow10(x.e)

(***************************************************************************)
(* Characters.                                                             *)
(***************************************************************************)
Quote == "\""

Digits == {"0", "1", "2", "3", "4", "5", "6", "7", "8", "9"}

Whitespace == {" ", "\t", "\r", "\n"}

DigitVal(c) ==
    CASE c = "0" -> 0 [] c = "1" -> 1 [] c = "2" -> 2 [] c = "3" -> 3
      [] c = "4" -> 4 [] c = "5" -> 5 [] c = "6" -> 6 [] c = "7" -> 7
      [] c = "8" -> 8 [] c = "9" -> 9

\* str::parse::<f64> of a run of decimal digits
DigitsValue(d) ==
    IF d = <<>> THEN 0
    ELSE 10 * DigitsValue(SubSeq(d, 1, Len(d) - 1)) + DigitVal(d[Len(d)])

F64FromDigits(d) == Norm(DigitsValue(d), 0)

(***************************************************************************)
(* Token-level combinators.  None of them moves the cursor when it fails.  *)
(***************************************************************************)
\* the number of leading characters of t found at p
matched_prefix(t, s, p) ==
    Cardinality({k \in 1..Len(t) :
        \A i \in 1..k : p + i <= Len(s) /\ s[p + i] = t[i]})

\* a tag that keeps the characters it matched when it fails
literal_keeps_prefix(t, s, p) ==
    IF p + Len(t) <= Len(s) /\ SubSeq(s, p + 1, p + Len(t)) = t
    THEN Ok(t, p + Len(t))
    ELSE Err(p + matched_prefix(t, s, p))

\* a literal tag: "null", "-", ".", "e", "[", ...
literal(t, s, p) ==
    IF p + Len(t) <= Len(s) /\ SubSeq(s, p + 1, p + Len(t)) = t
    THEN Ok(t, p + Len(t))
    ELSE Err(p)

\* the end of the longest run of characters of `set` starting at p
take_while(set, s, p) ==
    IF p < Len(s) /\ s[p + 1] \in set THEN take_while(set, s, p + 1) ELSE p

\* the run from p to q, which must not be empty
slice1(s, p, q) == IF q = p THEN Err(p) ELSE Ok(SubSeq(s, p + 1, q), q)

digit1(s, p) == slice1(s, p, take_while(Digits, s, p))

multispace0(s, p) == take_while(Whitespace, s, p)

\* the offset of the first c at or after p, or -1
find_char(c, s, p) ==
    IF p >= Len(s) THEN 0 - 1
    ELSE IF s[p + 1] = c THEN p
    ELSE find_char(c, s, p + 1)

\* the first c that no backslash precedes
find_unescaped(c, s, p) ==
    IF p >= Len(s) THEN 0 - 1
    ELSE IF s[p + 1] = c /\ (p = 0 \/ s[p] # "\\") THEN p
    ELSE find_unescaped(c, s, p + 1)

\* a body that runs on over a backslash-quote
take_until0_unescaped(c, s, p) ==
    IF find_unescaped(c, s, p) < 0 THEN Err(p)
    ELSE Ok(SubSeq(s, p + 1, find_unescaped(c, s, p)), find_unescaped(c, s, p))

\* take_until(0.., c)
slice_until(s, p, q) == IF q < 0 THEN Err(p) ELSE Ok(SubSeq(s, p + 1, q), q)

take_until0(c, s, p) == slice_until(s, p, find_char(c, s, p))

\* one_of(|c| c == '+' || c == '-')
one_of(set, s, p) ==
    IF p < Len(s) /\ s[p + 1] \in set THEN Ok(s[p + 1], p + 1) ELSE Err(p)

\* opt(f): a failure of f becomes None with the cursor put back
opt_reset(start, failed_at) == start

opt(r, start) ==
    IF r.ok THEN [ok |-> TRUE, pos |-> r.pos, val |-> r.val, some |-> TRUE]
    ELSE [ok |-> TRUE, pos |-> opt_reset(start, r.pos), val |-> NoVal,
          some |-> FALSE]

\* delimited(multispace0, tag, multispace0)
after_tag(t, s, r) == IF r.ok THEN Ok(t, multispace0(s, r.pos)) ELSE r

delimited_ws(t, s, p) == after_tag(t, s, literal(t, s, multispace0(s, p)))

(***************************************************************************)
(* Sequencing.  r is the result of the parser that ran first, K what runs  *)
(* after it with that result.                                             *)
(***************************************************************************)
\* `f.parse_next(input)?`, and each further parser of delimited, seq! and
\* separated_pair: a failure is returned as it is, the cursor where it is
Then(r, K(_)) == IF r.ok THEN K(r) ELSE r

\* `match f.parse_next(input) { Ok(..) => .., Err(..) => .. }`
Match(r, K(_), E(_)) == IF r.ok THEN K(r) ELSE E(r)

\* f.map(F)
Map(r, F(_)) == IF r.ok THEN Ok(F(r.val), r.pos) ELSE r

\* f.value(v)
Value(r, v) == IF r.ok THEN Ok(v, r.pos) ELSE r

(***************************************************************************)
(* Scalar rules.                                                           *)
(***************************************************************************)
parse_null(s, p) == Value(literal(<<"n", "u", "l", "l">>, s, p), Unit)

\* ret.to_string(): the slice, unchanged
to_string(raw) == raw

parse_string(s, p) ==
    Then(literal(<<Quote>>, s, p), LAMBDA open :
    Then(take_until0(Quote, s, open.pos), LAMBDA body :
    Then(literal(<<Quote>>, s, body.pos), LAMBDA close :
        Ok(to_string(body.val), close.pos))))

\* the fraction scaled by the digits of its value, not of its text
fraction_value_by_magnitude(frac) ==
    LET v == DigitsValue(frac)
        digits == CHOOSE k \in 0..Len(frac) :
                      v < Pow10(k) /\ (k = 0 \/ v >= Pow10(k - 1))
    IN  F64Div(F64FromDigits(frac), F64Powi10(digits))

\* frac.parse::<f64>() / 10_f64.powi(fraction_length)
fraction_value(frac) == F64Div(F64FromDigits(frac), F64Powi10(Len(frac)))

\* if sign { -v } else { v }
apply_sign(sign, v) == IF sign THEN F64Neg(v) ELSE v

parse_number(s, p) ==
    Then(opt(literal(<<"-">>, s, p), p), LAMBDA sign :
    Then(digit1(s, sign.pos), LAMBDA num :
    Match(literal(<<".">>, s, num.pos),
        LAMBDA ret :
            Then(digit1(s, ret.pos), LAMBDA frac :
                Ok(apply_sign(sign.some,
                       F64Add(F64FromDigits(num.val), fraction_value(frac.val))),
                   frac.pos)),
        LAMBDA ret :
            Ok(apply_sign(sign.some, F64FromDigits(num.val)), num.pos))))

\* "true".parse::<bool>(), "false".parse::<bool>()
to_bool(t) == t = <<"t", "r", "u", "e">>

\* alt(("true", "false")): both tags are tried at p
parse_boolean(s, p) ==
    Map(Match(literal(<<"t", "r", "u", "e">>, s, p),
              LAMBDA t : t,
              LAMBDA t : literal(<<"f", "a", "l", "s", "e">>, s, p)),
        to_bool)

\* match opt { Some('+') => num, Some('-') => -num, _ => num }
integer_sign(sgn, num) ==
    IF sgn.some /\ sgn.val = "-" THEN F64Neg(num) ELSE num

parse_integer(s, p) ==
    Then(opt(one_of({"+", "-"}, s, p), p), LAMBDA sgn :
    Then(digit1(s, sgn.pos), LAMBDA num :
        Ok(integer_sign(sgn, F64FromDigits(num.val)), num.pos)))

\* x * 10_f64.powi(z as i32)
scale(x, z) == F64Mul(x, F64Powi10(AsI32(z)))

\* seq!(parse_number, "e", parse_integer)
parse_scientific_notation(s, p) ==
    Then(parse_number(s, p), LAMBDA x :
    Then(literal(<<"e">>, s, x.pos), LAMBDA e :
    Then(parse_integer(s, e.pos), LAMBDA z :
        Ok(scale(x.val, z.val), z.pos))))

(***************************************************************************)
(* Containers.                                                             *)
(***************************************************************************)
\* Accumulate for Vec: push
accumulate_vec(acc, v) == Append(acc, v)

\* a map that keeps the first value of a key
accumulate_map_keep_first(acc, kv) ==
    [k \in DOMAIN acc \cup {kv[1]} |-> IF k \in DOMAIN acc THEN acc[k] ELSE kv[2]]

\* Accumulate for HashMap: insert(key, value)
accumulate_map(acc, kv) ==
    [k \in DOMAIN acc \cup {kv[1]} |-> IF k = kv[1] THEN kv[2] ELSE acc[k]]

\* the separator stays consumed
separated_no_reset(before_sep, after_sep) == after_sep

\* where separated(..) puts the cursor back when the element after a
\* separator fails: before that separator
separated_reset(before_sep, after_sep) == before_sep

\* the loop of separated(0.., parse_value, comma_with_space) after an element
separated_values(s, p, acc) ==
    Match(delimited_ws(<<",">>, s, p),
        LAMBDA sep :
            Match(parse_value(s, sep.pos),
                LAMBDA el :
                    separated_values(s, el.pos, accumulate_vec(acc, el.val)),
                LAMBDA el : Ok(acc, separated_reset(p, sep.pos))),
        LAMBDA sep : Ok(acc, p))

separated0_values(s, p) ==
    Match(parse_value(s, p),
        LAMBDA first :
            separated_values(s, first.pos, accumulate_vec(<<>>, first.val)),
        LAMBDA first : Ok(<<>>, p))

\* an array whose closing bracket is optional
parse_array_optional_close(s, p) ==
    Then(delimited_ws(<<"[">>, s, p), LAMBDA left :
    Then(separated0_values(s, left.pos), LAMBDA values :
    Match(delimited_ws(<<"]">>, s, values.pos),
        LAMBDA right : Ok(values.val, right.pos),
        LAMBDA right : Ok(values.val, values.pos))))

parse_array(s, p) ==
    Then(delimited_ws(<<"[">>, s, p), LAMBDA left :
    Then(separated0_values(s, left.pos), LAMBDA values :
    Then(delimited_ws(<<"]">>, s, values.pos), LAMBDA right :
        Ok(values.val, right.pos))))

\* separated_pair(parse_string, colon_with_space, parse_value)
parse_kv_pair(s, p) ==
    Then(parse_string(s, p), LAMBDA k :
    Then(delimited_ws(<<":">>, s, k.pos), LAMBDA colon :
    Then(parse_value(s, colon.pos), LAMBDA v :
        Ok(<<k.val, v.val>>, v.pos))))

separated_kv(s, p, acc) ==
    Match(delimited_ws(<<",">>, s, p),
        LAMBDA sep :
            Match(parse_kv_pair(s, sep.pos),
                LAMBDA kv : separated_kv(s, kv.pos, accumulate_map(acc, kv.val)),
                LAMBDA kv : Ok(acc, separated_reset(p, sep.pos))),
        LAMBDA sep : Ok(acc, p))

separated0_kv(s, p) ==
    Match(parse_kv_pair(s, p),
        LAMBDA first : separated_kv(s, first.pos, accumulate_map(<<>>, first.val)),
        LAMBDA first : Ok(<<>>, p))

parse_object(s, p) ==
    Then(delimited_ws(<<"{">>, s, p), LAMBDA left :
    Then(separated0_kv(s, left.pos), LAMBDA kv :
    Then(delimited_ws(<<"}">>, s, kv.pos), LAMBDA right :
        Ok(kv.val, right.pos))))

(***************************************************************************)
(* Value dispatch.                                                         *)
(***************************************************************************)
\* number tried before scientific-number
NumberBeforeScientific ==
    <<"null", "string", "number", "scientific", "boolean", "array", "object">>

\* the tuple handed to alt((..)), in its order
ValueAlternatives ==
    <<"null", "string", "scientific", "number", "boolean", "array", "object">>

\* one alternative with its .value(..) / .map(..) into JsonValue
run_alternative(name, s, p) ==
    CASE name = "null" -> Value(parse_null(s, p), JNull)
      [] name = "string" -> Map(parse_string(s, p), JString)
      [] name = "scientific" -> Map(parse_scientific_notation(s, p), JNumber)
      [] name = "number" -> Map(parse_number(s, p), JNumber)
      [] name = "boolean" -> Map(parse_boolean(s, p), JBoolean)
      [] name = "array" -> Map(parse_array(s, p), JArray)
      [] name = "object" -> Map(parse_object(s, p), JObject)

\* the next alternative starts where the last one stopped
alt_no_reset(start, failed_at) == failed_at

\* alt: the cursor is put back to the checkpoint before every further
\* alternative, and not after the last one
alt_reset(start, failed_at) == start

alt_from(i, s, start, cur) ==
    IF i > Len(ValueAlternatives) THEN Err(cur)
    ELSE Match(run_alternative(ValueAlternatives[i], s,
                               IF i = 1 THEN start ELSE alt_reset(start, cur)),
               LAMBDA r : r,
               LAMBDA r : alt_from(i + 1, s, start, r.pos))

parse_value(s, p) == alt_from(1, s, p, p)

\* a parse that demands the end of the text
end_of_text(s, r) == IF r.ok /\ r.pos < Len(s) THEN Err(r.pos) ELSE r

parse_json_to_end(s, p) == end_of_text(s, parse_value(s, p))

\* parse_value(input).map_err(..): the value or the error, nothing else
parse_json(s, p) == parse_value(s, p)

(***************************************************************************)
(* The texts the rules are run on.                                         *)
(***************************************************************************)
MaxRaw == 4

MaxElems == 3

MaxMembers == 2

Flatten(tokens) ==
    IF tokens = <<>> THEN <<>> ELSE Head(tokens) \o Flatten(Tail(tokens))

\* the texts tokens[1] sep tokens[2] sep ... tokens[n]
Join(tokens, sep) ==
    IF tokens = <<>> THEN <<>>
    ELSE IF Len(tokens) = 1 THEN tokens[1]
    ELSE Head(tokens) \o sep \o Join(Tail(tokens), sep)

SeqsUpTo(T, n) == UNION {[1..k -> T] : k \in 0..n}

TextsOver(T, n) == {Flatten(ts) : ts \in SeqsUpTo(T, n)}

NullText == <<"n", "u", "l", "l">>

TrueText == <<"t", "r", "u", "e">>

FalseText == <<"f", "a", "l", "s", "e">>

\* every text of at most MaxRaw tokens over each of these token sets
NumberTokens == {<<"-">>, <<"+">>, <<".">>, <<"e">>, <<"0">>, <<"1">>}

StringTokens == {<<Quote>>, <<"\\">>, <<"a">>, <<" ">>}

LiteralTokens == {NullText, TrueText, FalseText, <<"a">>, <<"1">>}

ArrayTokens == {<<"[">>, <<"]">>, <<",">>, <<" ">>, <<"1">>, NullText}

ObjectTokens ==
    {<<"{">>, <<"}">>, <<":">>, <<",">>, <<Quote, "a", Quote>>, <<"1">>}

RawTexts ==
    TextsOver(NumberTokens, MaxRaw) \cup TextsOver(StringTokens, MaxRaw)
      \cup TextsOver(LiteralTokens, MaxRaw) \cup TextsOver(ArrayTokens, MaxRaw)
      \cup TextsOver(ObjectTokens, MaxRaw)

\* a literal cut short: every proper, non-empty prefix of null, true, false
TruncatedLiterals ==
    {SubSeq(w, 1, k) : <<w, k>> \in
        {wk \in {NullText, TrueText, FalseText} \X (1..4) : wk[2] < Len(wk[1])}}

(***************************************************************************)
(* Number literals built from their parts, each part written down with     *)
(* the value it denotes.                                                   *)
(***************************************************************************)
IntegerParts ==
    { [text |-> <<"0">>, n |-> 0], [text |-> <<"7">>, n |-> 7],
      [text |-> <<"1", "2">>, n |-> 12], [text |-> <<"0", "3">>, n |-> 3] }

\* len: the number of digits written
FractionParts ==
    { [text |-> <<"5">>, n |-> 5, len |-> 1],
      [text |-> <<"0", "5">>, n |-> 5, len |-> 2],
      [text |-> <<"5", "0">>, n |-> 50, len |-> 2],
      [text |-> <<"0", "0", "9">>, n |-> 9, len |-> 3] }

ExponentParts ==
    { [text |-> <<"2">>, z |-> 2], [text |-> <<"+", "2">>, z |-> 2],
      [text |-> <<"-", "2">>, z |-> 0 - 2], [text |-> <<"0">>, z |-> 0],
      [text |-> <<"-", "1", "0">>, z |-> 0 - 10],
      [text |-> <<"+", "0", "1">>, z |-> 1] }

SignParts == { [text |-> <<>>, sign |-> 1], [text |-> <<"-">>, sign |-> 0 - 1] }

\* ['-'] digits ['.' digits], with the value sign * (integer + fraction)
PlainNumbers ==
    { [text |-> sg.text \o i.text, m |-> sg.sign * i.n, e |-> 0] :
          sg \in SignParts, i \in IntegerParts }
      \cup
    { [text |-> sg.text \o i.text \o <<".">> \o f.text,
       m |-> sg.sign * (i.n * Pow10(f.len) + f.n), e |-> 0 - f.len] :
          sg \in SignParts, i \in IntegerParts, f \in FractionParts }

\* <number> 'e' [+|-] digits, with the value number * 10^exponent
ScientificNumbers ==
    { [text |-> x.text \o <<"e">> \o z.text, m |-> x.m, e |-> x.e + z.z] :
          x \in PlainNumbers, z \in ExponentParts }

NumberTexts == {x.text : x \in PlainNumbers \cup ScientificNumbers}

(***************************************************************************)
(* Arrays and objects built from their elements, each element written down *)
(* with the value it denotes.                                              *)
(***************************************************************************)
ElementLexemes ==
    { [text |-> <<"1">>, val |-> [tag |-> "Number", m |-> 1, e |-> 0]],
      [text |-> NullText, val |-> [tag |-> "Null"]],
      [text |-> <<Quote, "a", ",", Quote>>,
       val |-> [tag |-> "String", s |-> <<"a", ",">>]],
      [text |-> <<"-", "1", ".", "5", "e", "+", "1">>,
       val |-> [tag |-> "Number", m |-> 0 - 15, e |-> 0]],
      [text |-> <<"{", Quote, "k", Quote, ":", "[", "]", "}">>,
       val |-> [tag |-> "Object",
                map |-> [k \in {<<"k">>} |-> [tag |-> "Array", items |-> <<>>]]]] }

MemberValues ==
    { [text |-> <<"1">>, val |-> [tag |-> "Number", m |-> 1, e |-> 0]],
      [text |-> FalseText, val |-> [tag |-> "Boolean", b |-> FALSE]],
      [text |-> <<"2", "e", "-", "1">>,
       val |-> [tag |-> "Number", m |-> 2, e |-> 0 - 1]] }

Keys == {<<"a">>, <<"b", " ">>}

\* the whitespace written before and after every delimiter
WsStyles ==
    { [pre |-> <<>>, post |-> <<>>], [pre |-> <<>>, post |-> <<" ">>],
      [pre |-> <<"\n", " ">>, post |-> <<"\t", "\r">>] }

ValueTexts(elems) == [i \in 1..Len(elems) |-> elems[i].text]

Comma(ws) == ws.pre \o <<",">> \o ws.post

\* '[' ws (value (ws ',' ws value)*)? ws ']'
ArrayText(elems, ws) ==
    <<"[">> \o ws.post \o Join(ValueTexts(elems), Comma(ws)) \o ws.pre
      \o <<"]">>

\* the same with a comma after the last element
ArrayTextTrailingComma(elems, ws) ==
    <<"[">> \o ws.post \o Join(ValueTexts(elems), Comma(ws)) \o Comma(ws)
      \o ws.pre \o <<"]">>

ArrayDocs == SeqsUpTo(ElementLexemes, MaxElems) \X WsStyles

WellFormedArrays ==
    { [text |-> ArrayText(d[1], d[2]),
       items |-> [i \in 1..Len(d[1]) |-> d[1][i].val]] : d \in ArrayDocs }

TrailingCommaArrays ==
    { ArrayTextTrailingComma(d[1], d[2]) : d \in {x \in ArrayDocs : x[1] # <<>>} }

\* pair := string ws ':' ws value
PairText(member, ws) ==
    <<Quote>> \o member[1] \o <<Quote>> \o ws.pre \o <<":">> \o ws.post
      \o member[2].text

PairTexts(members, ws) == [i \in 1..Len(members) |-> PairText(members[i], ws)]

\* '{' ws (pair (ws ',' ws pair)*)? ws '}'
ObjectText(members, ws) ==
    <<"{">> \o ws.post \o Join(PairTexts(members, ws), Comma(ws)) \o ws.pre
      \o <<"}">>

\* the value of the last member written with key k
LastValue(members, k) ==
    LET last == CHOOSE i \in 1..Len(members) :
                    /\ members[i][1] = k
                    /\ \A j \in (i + 1)..Len(members) : members[j][1] # k
    IN  members[last][2].val

ObjectDocs == SeqsUpTo(Keys \X MemberValues, MaxMembers) \X WsStyles

WellFormedObjects ==
    { [text |-> ObjectText(d[1], d[2]),
       map |-> [k \in {d[1][i][1] : i \in 1..Len(d[1])} |-> LastValue(d[1], k)]] :
          d \in ObjectDocs }

\* the same object with its last member's value left out
MissingValueText(members, ws) ==
    LET n == Len(members)
        pairs == [i \in 1..n |->
                    IF i < n THEN PairText(members[i], ws)
                    ELSE <<Quote>> \o members[n][1] \o <<Quote>> \o ws.pre
                           \o <<":">> \o ws.post]
    IN  <<"{">> \o ws.post \o Join(pairs, Comma(ws)) \o ws.pre \o <<"}">>

MissingValueObjects ==
    { MissingValueText(d[1], d[2]) : d \in {x \in ObjectDocs : x[1] # <<>>} }

\* the same object with its last member's key written as a bare lexeme
BareKeys == {<<"1">>, NullText}

BareKeyText(members, ws, key) ==
    LET n == Len(members)
        pairs == [i \in 1..n |->
                    IF i < n THEN PairText(members[i], ws)
                    ELSE key \o ws.pre \o <<":">> \o ws.post
                           \o members[n][2].text]
    IN  <<"{">> \o ws.post \o Join(pairs, Comma(ws)) \o ws.pre \o <<"}">>

BareKeyObjects ==
    { BareKeyText(d[1], d[2], k) :
          d \in {x \in ObjectDocs : x[1] # <<>>}, k \in BareKeys }

\* a container whose closing bracket or brace is missing
Unclosed(text) == SubSeq(text, 1, Len(text) - 1)

UnclosedContainers ==
    {Unclosed(a.text) : a \in WellFormedArrays}
      \cup {Unclosed(o.text) : o \in WellFormedObjects}

\* a scientific literal as the only element of an array and as the only
\* member value of an object
ScientificInArray ==
    { [text |-> <<"[">> \o x.text \o <<"]">>,
       val |-> [tag |-> "Array",
                items |-> <<[tag |-> "Number", m |-> Norm(x.m, x.e).m,
                             e |-> Norm(x.m, x.e).e]>>]] :
          x \in ScientificNumbers }

ScientificInObject ==
    { [text |-> <<"{", Quote, "k", Quote, ":">> \o x.text \o <<"}">>,
       val |-> [tag |-> "Object",
                map |-> [k \in {<<"k">>} |->
                            [tag |-> "Number", m |-> Norm(x.m, x.e).m,
                             e |-> Norm(x.m, x.e).e]]]] :
          x \in ScientificNumbers }

Inputs ==
    RawTexts \cup TruncatedLiterals \cup NumberTexts
      \cup {c.text : c \in ScientificInArray \cup ScientificInObject}
      \cup {a.text : a \in WellFormedArrays} \cup TrailingCommaArrays
      \cup {o.text : o \in WellFormedObjects} \cup MissingValueObjects
      \cup BareKeyObjects \cup UnclosedContainers

(***************************************************************************)
(* The state: the text, the cursor into it, the rule that was run on it    *)
(* and what the rule returned.                                             *)
(***************************************************************************)
NoResult == [ok |-> FALSE, val |-> NoVal]

Init ==
    /\ input \in Inputs
    /\ cursor = 0
    /\ rule = "none"
    /\ result = NoResult

\* a caller runs one rule on its text: `rule(&mut (&*input))`
Run(name, r) ==
    /\ rule = "none"
    /\ rule' = name
    /\ cursor' = r.pos
    /\ result' = [ok |-> r.ok, val |-> r.val]
    /\ UNCHANGED input

Call_parse_json == Run("parse_json", parse_json(input, cursor))

Call_parse_null == Run("parse_null", parse_null(input, cursor))

Call_parse_string == Run("parse_string", parse_string(input, cursor))

Call_parse_number == Run("parse_number", parse_number(input, cursor))

Call_parse_boolean == Run("parse_boolean", parse_boolean(input, cursor))

Call_parse_array == Run("parse_array", parse_array(input, cursor))

Call_parse_object == Run("parse_object", parse_object(input, cursor))

Call_parse_value == Run("parse_value", parse_value(input, cursor))

Call_parse_integer == Run("parse_integer", parse_integer(input, cursor))

Call_parse_scientific_notation ==
    Run("parse_scientific_notation", parse_scientific_notation(input, cursor))

Next ==
    \/ Call_parse_json
    \/ Call_parse_null
    \/ Call_parse_string
    \/ Call_parse_number
    \/ Call_parse_boolean
    \/ Call_parse_array
    \/ Call_parse_object
    \/ Call_parse_value
    \/ Call_parse_integer
    \/ Call_parse_scientific_notation

Spec == Init /\ [][Next]_vars

(***************************************************************************)
(* Properties.                                                             *)
(***************************************************************************)
Returned(r) == result = [ok |-> r.ok, val |-> r.val] /\ cursor = r.pos

Succeeded(v) == result = [ok |-> TRUE, val |-> v] /\ cursor = Len(input)

IsPrefix(t, s) == Len(t) <= Len(s) /\ SubSeq(s, 1, Len(t)) = t

Letters ==
    {"a", "b", "c", "d", "e", "f", "g", "h", "i", "j", "k", "l", "m", "n",
     "o", "p", "q", "r", "s", "t", "u", "v", "w", "x", "y", "z"}

\* the order of the alternatives as the dispatch rule states it
StatedOrder ==
    <<"null", "string", "scientific", "number", "boolean", "array", "object">>

\* each alternative run on its own from the position parse_value was entered at
Attempt(i) == run_alternative(StatedOrder[i], input, 0)

\* C1: parse_value returns what the first alternative, in the order null,
\* string, scientific-number, number, boolean, array, object, that succeeds
\* from the entry position returns, value and cursor; it fails when none
\* of them succeeds from the entry position.
C1_FirstMatchWins ==
    rule = "parse_value" =>
        IF \E i \in 1..Len(StatedOrder) : Attempt(i).ok
        THEN LET first == CHOOSE i \in 1..Len(StatedOrder) :
                              /\ Attempt(i).ok
                              /\ \A j \in 1..(i - 1) : ~Attempt(j).ok
             IN  Returned(Attempt(first))
        ELSE ~result.ok

\* an earlier alternative consumed text before failing, and a later one
\* succeeded from the entry position
C1_Witness ==
    /\ rule = "parse_value"
    /\ result.ok
    /\ result.val.tag = "Number"
    /\ ~parse_scientific_notation(input, 0).ok
    /\ parse_scientific_notation(input, 0).pos > cursor

Malformed == TruncatedLiterals \cup UnclosedContainers \cup MissingValueObjects

\* C2: on a truncated literal, a container without its closing bracket or
\* brace, or an object member without its value, parse_json returns an
\* error and no value.
C2_MalformedRejected ==
    (rule = "parse_json" /\ input \in Malformed) =>
        (~result.ok /\ result.val = NoVal)

C2_Witness ==
    /\ rule = "parse_json"
    /\ input = <<"[", "1", ",", "n", "u", "l", "l">>
    /\ ~result.ok

\* C3: when null, true or false is directly followed by a further letter,
\* parse_json does not succeed by consuming the literal and leaving the
\* letter unconsumed.
C3_BoundaryAware ==
    \A lit \in {NullText, TrueText, FalseText} :
        ( /\ rule = "parse_json"
          /\ IsPrefix(lit, input)
          /\ Len(input) > Len(lit)
          /\ input[Len(lit) + 1] \in Letters )
        => ~(result.ok /\ cursor = Len(lit))

\* the rule that was run, as the operator that models it
RunRule(name, s) ==
    CASE name = "parse_json" -> parse_json(s, 0)
      [] name = "parse_null" -> parse_null(s, 0)
      [] name = "parse_string" -> parse_string(s, 0)
      [] name = "parse_number" -> parse_number(s, 0)
      [] name = "parse_boolean" -> parse_boolean(s, 0)
      [] name = "parse_array" -> parse_array(s, 0)
      [] name = "parse_object" -> parse_object(s, 0)
      [] name = "parse_value" -> parse_value(s, 0)
      [] name = "parse_integer" -> parse_integer(s, 0)
      [] name = "parse_scientific_notation" -> parse_scientific_notation(s, 0)

Consumed == SubSeq(input, 1, cursor)

\* C4 as stated: a rule that fails leaves the cursor where it was when the
\* rule was entered.
C4_FailureRestoresCursor == (rule # "none" /\ ~result.ok) => cursor = 0

\* C4 as amended: a rule that succeeds has advanced the cursor exactly past
\* the lexeme it consumed (a non-empty prefix of the text, on which alone
\* the same rule gives the same value and consumes all of it); a rule that
\* fails leaves the cursor at the entry position when it is parse_null or
\* parse_boolean, and anywhere from the entry position to the end of the
\* text when it is any other rule.
C4_CursorContract ==
    rule # "none" =>
        /\ cursor \in 0..Len(input)
        /\ result.ok =>
              /\ cursor > 0
              /\ RunRule(rule, Consumed)
                    = [ok |-> TRUE, pos |-> cursor, val |-> result.val]
        /\ (~result.ok /\ rule \in {"parse_null", "parse_boolean"}) => cursor = 0

\* parse_number fails on `-` with no digit, the cursor left after the `-`
C4_Witness ==
    /\ rule = "parse_number"
    /\ input = <<"-">>
    /\ ~result.ok
    /\ cursor = 1

HasQuoteAfterFirst == \E j \in 2..Len(input) : input[j] = Quote

FirstClosingQuote ==
    CHOOSE j \in 2..Len(input) :
        input[j] = Quote /\ \A i \in 2..(j - 1) : input[i] # Quote

\* C5: on a text starting with a quote that is followed by another quote,
\* parse_string returns the characters between the opening quote and the
\* first following quote, unchanged, whatever precedes that quote, and
\* leaves the cursor just after it; on any other text it fails.
C5_StringBody ==
    rule = "parse_string" =>
        IF input # <<>> /\ input[1] = Quote /\ HasQuoteAfterFirst
        THEN /\ result = [ok |-> TRUE,
                          val |-> SubSeq(input, 2, FirstClosingQuote - 1)]
             /\ cursor = FirstClosingQuote
        ELSE ~result.ok

\* a body that ends in a backslash: the quote after it closed the string
C5_Witness ==
    /\ rule = "parse_string"
    /\ result.ok
    /\ result.val # <<>>
    /\ result.val[Len(result.val)] = "\\"
    /\ cursor < Len(input)

\* the offset of the first character after an optional leading '-'
AfterSign == IF input # <<>> /\ input[1] = "-" THEN 1 ELSE 0

\* a '.' directly after the integer digits with no digit after it
DanglingPoint ==
    \E k \in (AfterSign + 2)..Len(input) :
        /\ input[k] = "."
        /\ \A i \in (AfterSign + 1)..(k - 1) : input[i] \in Digits
        /\ (k = Len(input) \/ input[k + 1] \notin Digits)

\* C6: parse_number on ['-'] digits ['.' digits] returns
\* sign * (integer + fraction / 10^(number of fraction digits)); it fails
\* on a leading '+', when no digit precedes the point, and when a '.' is not
\* followed by a digit.
C6_NumberValue ==
    rule = "parse_number" =>
        /\ \A x \in PlainNumbers :
              input = x.text => Succeeded(Norm(x.m, x.e))
        /\ (input # <<>> /\ input[1] = "+") => ~result.ok
        /\ (Len(input) = AfterSign \/ input[AfterSign + 1] \notin Digits)
              => ~result.ok
        /\ DanglingPoint => ~result.ok

\* -03.009: a negative number whose fraction has leading zeros
C6_Witness ==
    /\ rule = "parse_number"
    /\ input = <<"-", "0", "3", ".", "0", "0", "9">>
    /\ result = [ok |-> TRUE, val |-> [m |-> 0 - 3009, e |-> 0 - 3]]

\* C7: parse_scientific_notation on <number> 'e' [+|-] digits returns
\* number * 10^exponent, the exponent's sign honoured; as the only element
\* of an array or the only member value of an object such a literal is
\* consumed whole as one Number; and a number without an 'e' suffix is not
\* accepted by the scientific rule and parse_value returns its plain value.
C7_Scientific ==
    /\ rule = "parse_scientific_notation" =>
          /\ \A x \in ScientificNumbers :
                input = x.text => Succeeded(Norm(x.m, x.e))
          /\ \A x \in PlainNumbers : input = x.text => ~result.ok
    /\ rule = "parse_value" =>
          /\ \A c \in ScientificInArray \cup ScientificInObject :
                input = c.text => Succeeded(c.val)
          /\ \A x \in PlainNumbers :
                input = x.text => Succeeded(JNumber(Norm(x.m, x.e)))

\* [-7.05e-2] read through parse_value
C7_Witness ==
    /\ rule = "parse_value"
    /\ input = <<"[", "-", "7", ".", "0", "5", "e", "-", "2", "]">>
    /\ result.ok
    /\ result.val.items = <<[tag |-> "Number", m |-> 0 - 705, e |-> 0 - 4]>>

\* C8: on '[' ws (value (ws ',' ws value)*)? ws ']' parse_array returns the
\* element values in source order, as many as there are elements; with a
\* comma between the last element and the ']' it fails.
C8_ArrayOrder ==
    rule = "parse_array" =>
        /\ \A a \in WellFormedArrays : input = a.text => Succeeded(a.items)
        /\ input \in TrailingCommaArrays => ~result.ok

\* three different elements with whitespace around the commas
C8_Witness ==
    /\ rule = "parse_array"
    /\ result.ok
    /\ Len(result.val) = 3
    /\ result.val[1] = [tag |-> "Null"]
    /\ result.val[2].tag = "Object"
    /\ result.val[2].map[<<"k">>] = [tag |-> "Array", items |-> <<>>]
    /\ result.val[3] = [tag |-> "Number", m |-> 1, e |-> 0]
    /\ "\n" \in {input[i] : i \in 1..Len(input)}

\* C9: on '{' ws (pair (ws ',' ws pair)*)? ws '}' parse_object returns the
\* mapping whose keys are the keys written, each with the value of its last
\* occurrence; with a member whose key is not a string lexeme it fails.
C9_ObjectLastWins ==
    rule = "parse_object" =>
        /\ \A o \in WellFormedObjects : input = o.text => Succeeded(o.map)
        /\ input \in BareKeyObjects => ~result.ok

\* {"a":1,"a":false}: the key written twice keeps its second value
C9_Witness ==
    /\ rule = "parse_object"
    /\ input = <<"{", Quote, "a", Quote, ":", "1", ",", Quote, "a", Quote, ":">>
                  \o FalseText \o <<"}">>
    /\ result.ok
    /\ DOMAIN result.val = {<<"a">>}
    /\ result.val[<<"a">>] = [tag |-> "Boolean", b |-> FALSE]

\* C10: parse_json succeeds with the cursor short of the end of the text:
\* nulla gives Null with `a` left, 1e+ gives Number(1) with `e+` left, [1]]
\* gives Array[1] with `]` left; and the value it returns is the one it
\* returns on the consumed prefix alone.
C10_NoEndCheck ==
    rule = "parse_json" =>
        /\ input = NullText \o <<"a">> =>
              (result = [ok |-> TRUE, val |-> [tag |-> "Null"]] /\ cursor = 4)
        /\ input = <<"1", "e", "+">> =>
              ( /\ result = [ok |-> TRUE,
                             val |-> [tag |-> "Number", m |-> 1, e |-> 0]]
                /\ cursor = 1 )
        /\ input = <<"[", "1", "]", "]">> =>
              ( /\ result.ok
                /\ result.val.items = <<[tag |-> "Number", m |-> 1, e |-> 0]>>
                /\ cursor = 3 )
        /\ result.ok =>
              parse_json(Consumed, 0)
                  = [ok |-> TRUE, pos |-> cursor, val |-> result.val]

C10_Witness ==
    /\ rule = "parse_json"
    /\ input = <<"[", "1", "]", "]">>
    /\ result.ok
    /\ cursor = 3

====
